---------------------------- MODULE Spec2Model ----------------------------
(***************************************************************************)
(* Statistics and AR(p)/MA(q) routines of                                   *)
(* financetoolkit/technicals/statistic_model.py.                            *)
(*                                                                         *)
(* Every routine is a stateless function.  A behaviour of the model is one  *)
(* call: Init draws the arguments, the action of the routine applies it and *)
(* stores what the call returned or raised.                                 *)
(*                                                                         *)
(* Numbers: observations and coefficients are integers; every quotient the  *)
(* code forms is kept exact as a fraction <<num, den>> in lowest terms with *)
(* den > 0.  A float division by zero gives NaN = <<0, 0>> or an infinity   *)
(* <<1, 0>>, <<-1, 0>>, as numpy's float64 does (a warning, no exception).  *)
(***************************************************************************)
EXTENDS Integers, Sequences, FiniteSets, TLC

VARIABLES pc, fn, args, result, rng, opt

vars == <<pc, fn, args, result, rng, opt>>

(***************************************************************************)
(* Bounds of the model.                                                     *)
(***************************************************************************)
MaxLen == 3
MaxSteps == 3
MaxP == 2
MaxQ == 2
MaxVal == 1
MaxCols == 2
MaxRows == 1

Vals == -1..MaxVal

SeqsUpTo(S, n) == UNION {[1..k -> S] : k \in 0..n}

(***************************************************************************)
(* Python values.  The type tag is what isinstance() inspects.              *)
(***************************************************************************)
None == [t |-> "None"]
PyInt(v) == [t |-> "int", v |-> v]
Arr(v) == [t |-> "ndarray", v |-> v]
Ser(v) == [t |-> "Series", v |-> v]
List(v) == [t |-> "list", v |-> v]
Frame(nlevels, cols) == [t |-> "DataFrame", nlevels |-> nlevels, cols |-> cols]

(* A call either returns a value or raises; log is the set of computations *)
(* (estimation, prediction, noise draw) the call performed before that.     *)
Return(v, log) == [kind |-> "return", val |-> v, log |-> log]
Raise(cls, msg, log) == [kind |-> "raise", cls |-> cls, msg |-> msg, log |-> log]

(***************************************************************************)
(* Exact arithmetic.                                                        *)
(***************************************************************************)
Abs(x) == IF x < 0 THEN -x ELSE x
Min(a, b) == IF a < b THEN a ELSE b
Max(a, b) == IF a > b THEN a ELSE b
Sign(x) == IF x > 0 THEN 1 ELSE IF x < 0 THEN -1 ELSE 0

RECURSIVE GCD(_, _)
GCD(a, b) == IF b = 0 THEN a ELSE GCD(b, a % b)

NaN == <<0, 0>>

(* float64 true division num / den *)
Rat(num, den) ==
    IF den = 0 THEN <<Sign(num), 0>>
    ELSE LET g == GCD(Abs(num), Abs(den))
         IN  <<Sign(den) * (num \div g), Abs(den) \div g>>

IsFinite(x) == x[2] # 0

RatAdd(x, y) ==
    IF IsFinite(x) /\ IsFinite(y) THEN Rat(x[1] * y[2] + y[1] * x[2], x[2] * y[2])
    ELSE IF IsFinite(y) THEN x
    ELSE IF IsFinite(x) THEN y
    ELSE IF x = y THEN x ELSE NaN

RatScale(k, x) == IF IsFinite(x) THEN Rat(k * x[1], x[2]) ELSE <<Sign(k) * x[1], 0>>

RECURSIVE SumSeq(_)
SumSeq(s) == IF s = <<>> THEN 0 ELSE Head(s) + SumSeq(Tail(s))

RECURSIVE SumFn(_)
SumFn(f) ==
    IF DOMAIN f = {} THEN 0
    ELSE LET x == CHOOSE x \in DOMAIN f : TRUE
         IN  f[x] + SumFn([y \in DOMAIN f \ {x} |-> f[y]])

(* np.dot of two 1-D integer arrays of equal length *)
Dot(a, b) == SumSeq([i \in 1..Len(a) |-> a[i] * b[i]])

(* s[::-1] *)
Reverse(s) == [i \in 1..Len(s) |-> s[Len(s) + 1 - i]]

(* Python slice bound k on a sequence of length n *)
ClampIdx(k, n) == IF k < 0 THEN Max(n + k, 0) ELSE Min(k, n)

(* s[a:b] and s[a:] with Python's (0-based, negative-from-the-end) bounds *)
PySlice(s, a, b) == SubSeq(s, ClampIdx(a, Len(s)) + 1, ClampIdx(b, Len(s)))
PySliceFrom(s, a) == SubSeq(s, ClampIdx(a, Len(s)) + 1, Len(s))

(* np.mean of integers: an empty mean is NaN *)
Mean(s) == Rat(SumSeq(s), Len(s))

(***************************************************************************)
(* Linear algebra: matrices are sequences of rows.                          *)
(***************************************************************************)
RECURSIVE SortedSeq(_)
SortedSeq(S) ==
    IF S = {} THEN <<>>
    ELSE LET m == CHOOSE m \in S : \A y \in S : m <= y
         IN  <<m>> \o SortedSeq(S \ {m})

RECURSIVE Det(_)
Det(M) ==
    IF Len(M) = 0 THEN 1
    ELSE LET k == Len(M)
             Minor(j) == [a \in 1..(k - 1) |->
                            [c \in 1..(k - 1) |-> M[a + 1][IF c < j THEN c ELSE c + 1]]]
         IN  SumFn([j \in 1..k |->
                      (IF j % 2 = 1 THEN 1 ELSE -1) * M[1][j] * Det(Minor(j))])

(* principal submatrix on the index set T *)
SubMatrix(M, T) ==
    LET idx == SortedSeq(T)
    IN  [a \in 1..Len(idx) |-> [c \in 1..Len(idx) |-> M[idx[a]][idx[c]]]]

ReplaceCol(M, i, b) ==
    [a \in 1..Len(M) |-> [c \in 1..Len(M) |-> IF c = i THEN b[a] ELSE M[a][c]]]

SubsetsOfSize(k, r) == {T \in SUBSET (1..k) : Cardinality(T) = r}

(* sum of the r-by-r principal minors of M *)
PrincipalMinorSum(M, r) ==
    SumFn([T \in SubsetsOfSize(Len(M), r) |-> Det(SubMatrix(M, T))])

(* rank of a Gram matrix: the largest r whose principal minor sum is not 0 *)
GramRank(G) ==
    CHOOSE r \in 0..Len(G) :
        /\ PrincipalMinorSum(G, r) # 0
        /\ \A r2 \in (r + 1)..Len(G) : PrincipalMinorSum(G, r2) = 0

(***************************************************************************)
(* np.linalg.lstsq(X, Y, rcond=None)[0] for X = np.column_stack(cols): the  *)
(* least-squares solution of minimum norm, phi = lim (G + eI)^-1 b for      *)
(* e -> 0 with G = X'X and b = X'Y.  By Cramer's rule on G + eI, with r the *)
(* rank of G, phi[i] is the sum of the r-by-r principal minors through i of *)
(* G with column i replaced by b, over the sum of the r-by-r principal      *)
(* minors of G.  A matrix without rows gives phi = 0.                       *)
(***************************************************************************)
NormVec(num, den) ==
    LET RECURSIVE G(_, _)
        G(s, g) == IF s = <<>> THEN g ELSE G(Tail(s), GCD(g, Abs(Head(s))))
        g == G(num, Abs(den))
    IN  [num |-> [i \in 1..Len(num) |-> Sign(den) * (num[i] \div g)],
         den |-> Abs(den) \div g]

lstsq(cols, Y) ==
    LET p == Len(cols)
        G == [a \in 1..p |-> [c \in 1..p |-> Dot(cols[a], cols[c])]]
        b == [a \in 1..p |-> Dot(cols[a], Y)]
        r == GramRank(G)
        num(i) == SumFn([T \in {T \in SubsetsOfSize(p, r) : i \in T} |->
                           Det(SubMatrix(ReplaceCol(G, i, b), T))])
    IN  IF Len(Y) = 0 THEN [num |-> [i \in 1..p |-> 0], den |-> 1]
        ELSE NormVec([i \in 1..p |-> num(i)], PrincipalMinorSum(G, r))

(* X.dot(phi) - Y scaled by phi.den, row t *)
ScaledResidual(cols, Y, phi, t) ==
    phi.den * Y[t] - SumSeq([i \in 1..Len(cols) |-> phi.num[i] * cols[i][t]])

(* X of get_ar_weights_lsm as its list of columns, and Y *)
lsm_X(series, p) ==
    [i \in 1..p |->
       IF -p + i # 0 THEN PySlice(series, i, -p + i) ELSE PySliceFrom(series, i)]

lsm_Y(series, p) == PySliceFrom(series, p)

get_ar_weights_lsm(series, p) ==
    LET cols == lsm_X(series, p)
        Y == lsm_Y(series, p)
        phi == lstsq(cols, Y)
        sq == [t \in 1..Len(Y) |->
                 ScaledResidual(cols, Y, phi, t) * ScaledResidual(cols, Y, phi, t)]
        sigma2 == Rat(SumSeq(sq), phi.den * phi.den * Len(Y))
    IN  IF p = 0 \/ \E i \in 1..p : Len(cols[i]) # Len(cols[1])
        THEN Raise("ValueError", "column_stack", {"estimate"})
        ELSE IF Len(Y) # Len(cols[1])
        THEN Raise("LinAlgError", "Incompatible dimensions", {"estimate"})
        ELSE Return(<<phi, sigma2>>, {"estimate"})

(***************************************************************************)
(* estimate_ar_weights_yule_walker.  np.correlate(s, s, "full")[j] is the   *)
(* sum of s[t + j - (n - 1)] * s[t]; a negative index n - 1 - i counts from *)
(* the end of the 2n - 1 entries.  autocov is kept as numerators over n.    *)
(***************************************************************************)
CorrelateFull(series, j) ==
    LET n == Len(series)
        k == j - (n - 1)
    IN  SumFn([t \in {t \in 1..n : t + k \in 1..n} |-> series[t + k] * series[t]])

estimate_ar_weights_yule_walker(series, p) ==
    LET n == Len(series)
        idx(i) == IF n - 1 - i < 0 THEN n - 1 - i + (2 * n - 1) ELSE n - 1 - i
        autocov == [i \in 1..(p + 1) |-> CorrelateFull(series, idx(i - 1))]
        R == [a \in 1..p |-> [c \in 1..p |-> autocov[Abs(a - c) + 1]]]
        r == [a \in 1..p |-> autocov[a + 1]]
        D == Det(R)
        num == [i \in 1..p |-> Det(ReplaceCol(R, i, r))]
        phi == NormVec(num, D)
        sigma2 == Rat(autocov[1] * phi.den - Dot(phi.num, r), phi.den * n)
    IN  IF n = 0 THEN Raise("ValueError", "correlate", {"estimate"})
        ELSE IF \E i \in 0..p : n - 1 - i < -(2 * n - 1)
        THEN Raise("IndexError", "autocov", {"estimate"})
        ELSE IF D = 0 THEN Raise("LinAlgError", "Singular matrix", {"estimate"})
        ELSE Return(<<phi, sigma2>>, {"estimate"})

(***************************************************************************)
(* get_ar.  The three isinstance branches are get_ar_DataFrame,             *)
(* get_ar_Series and get_ar_ndarray; any other type falls off the end of    *)
(* the function, which returns None.                                        *)
(***************************************************************************)
DefaultSteps == PyInt(1)
DefaultP == 1
DefaultMethod == "lsm"

IntVec(v) == [num |-> v, den |-> 1]

(* the loop of get_ar: every pass reads data[-p:] and stores one value *)
ar_predictions(data, steps, phi, p) ==
    LET X_recent == PySliceFrom(data, -p)
        X_next == Rat(Dot(phi.num, Reverse(X_recent)), phi.den)
    IN  [i \in 1..steps |-> X_next]

get_ar_ndarray(data, steps, phi, c, p, method) ==
    LET est == IF phi # None THEN Return(<<phi, NaN>>, {})
               ELSE IF method = "lsm" THEN get_ar_weights_lsm(data.v, p)
               ELSE IF method = "yw" THEN estimate_ar_weights_yule_walker(data.v, p)
               ELSE Raise("ValueError", "Method must be 'lsm' or 'yw'.", {})
        w == est.val[1]
    IN  IF est.kind = "raise" THEN est
        ELSE IF steps.t # "int"
        THEN Raise("TypeError", "steps", est.log)
        ELSE IF steps.v < 0
        THEN Raise("ValueError", "negative dimensions", est.log)
        ELSE IF steps.v = 0
        THEN Return(Arr(<<>>), est.log)
        ELSE (* phi is an array here: a scalar phi arrives only from      *)
             (* get_ar_Series, together with a steps that is no integer   *)
             LET vec == IF phi # None THEN IntVec(phi.v) ELSE w
             IN  IF Len(vec.num) # Len(PySliceFrom(data.v, -p))
                 THEN Raise("ValueError", "shapes not aligned", est.log \cup {"predict"})
                 ELSE Return(Arr(ar_predictions(data.v, steps.v, vec, p)),
                             est.log \cup {"predict"})

(* return get_ar(data.values, phi, c, steps): the arguments are positional *)
get_ar_Series(data, steps, phi, c, p, method) ==
    get_ar_ndarray(Arr(data.v), phi, c, steps, DefaultP, DefaultMethod)

(* DataFrame.aggregate(func): func is called with each column as a Series   *)
(* and nothing else; the first exception propagates.  A frame without       *)
(* columns or without rows is returned as a copy (pandas tries func on an   *)
(* empty Series and discards what it raises).                               *)
FrameIsEmpty(data) == Len(data.cols) = 0 \/ Len(data.cols[1]) = 0

aggregate(data, outcomes) ==
    LET failed == {j \in 1..Len(outcomes) : outcomes[j].kind = "raise"}
        logs == UNION {outcomes[j].log : j \in 1..Len(outcomes)}
    IN  IF FrameIsEmpty(data) THEN Return(data, {})
        ELSE IF failed # {}
        THEN outcomes[CHOOSE j \in failed : \A k \in failed : j <= k]
        ELSE Return(Frame(1, [j \in 1..Len(outcomes) |-> outcomes[j].val.v]), logs)

(* get_ar_DataFrame without the test of the index levels *)
get_ar_DataFrame_NoLevelTest(data, steps, phi, c, p, method) ==
    aggregate(data,
      [j \in 1..Len(data.cols) |->
         get_ar_Series(Ser(data.cols[j]), DefaultSteps, None, None,
                       DefaultP, DefaultMethod)])

get_ar_DataFrame(data, steps, phi, c, p, method) ==
    IF data.nlevels # 1
    THEN Raise("ValueError", "Expects single index DataFrame, no other value.", {})
    ELSE aggregate(data,
           [j \in 1..Len(data.cols) |->
              get_ar_Series(Ser(data.cols[j]), DefaultSteps, None, None,
                            DefaultP, DefaultMethod)])

get_ar(data, steps, phi, c, p, method) ==
    IF data.t = "DataFrame" THEN get_ar_DataFrame(data, steps, phi, c, p, method)
    ELSE IF data.t = "Series" THEN get_ar_Series(data, steps, phi, c, p, method)
    ELSE IF data.t = "ndarray" THEN get_ar_ndarray(data, steps, phi, c, p, method)
    ELSE Return(None, {})

(***************************************************************************)
(* fit_ma_model.  scipy.optimize.minimize is an oracle: o.success and o.x   *)
(* are whatever L-BFGS-B reports for ma_likelihood on the centred data.     *)
(***************************************************************************)
(* fit_ma_model that returns the parameters whatever the optimizer reports *)
fit_ma_model_IgnoresSuccess(data, q, o) ==
    Return(<<SubSeq(o.x, 1, Len(o.x) - 1), o.x[Len(o.x)]>>, {"estimate"})

fit_ma_model(data, q, o) ==
    IF o.success
    THEN Return(<<SubSeq(o.x, 1, Len(o.x) - 1), o.x[Len(o.x)]>>, {"estimate"})
    ELSE Raise("RuntimeError", "Optimization failed.", {"estimate"})

(***************************************************************************)
(* get_ma.  get_ma_setup is the function up to the noise draw: it raises,   *)
(* returns (a table) or goes on with the data, theta and sigma2 in use.     *)
(* ma_predictions is the loop over the drawn errors.                        *)
(***************************************************************************)
Continue(data, theta, sigma2, log) ==
    [kind |-> "continue", data |-> data, theta |-> theta, sigma2 |-> sigma2, log |-> log]

get_ma_DataFrame(data) ==
    IF data.nlevels # 1
    THEN Raise("ValueError", "Expects single index DataFrame.", {})
    ELSE aggregate(data,
           [j \in 1..Len(data.cols) |->
              Raise("TypeError", "get_ma() missing 1 required positional argument: 'q'", {})])

(* get_ma_setup without the test of theta: a missing theta is estimated *)
get_ma_setup_FitsTheta(data0, q, steps, theta, sigma2, o) ==
    LET data == IF data0.t = "Series" THEN Arr(data0.v) ELSE data0 IN
    IF data.t = "DataFrame" THEN get_ma_DataFrame(data)
    ELSE IF Len(data.v) < q
    THEN Raise("ValueError", "Number of observations in data must be at least q.", {})
    ELSE IF theta = None \/ sigma2 = None
    THEN LET fit == fit_ma_model(data.v, q, o)
         IN  IF fit.kind = "raise" THEN fit
             ELSE Continue(data.v, fit.val[1], fit.val[2], fit.log)
    ELSE Continue(data.v, theta.v, sigma2.v, {})

get_ma_setup(data0, q, steps, theta, sigma2, o) ==
    LET data == IF data0.t = "Series" THEN Arr(data0.v) ELSE data0 IN
    IF data.t = "DataFrame" THEN get_ma_DataFrame(data)
    ELSE IF theta = None
    THEN Raise("ValueError", "Theta (MA coefficients) must be provided.", {})
    ELSE IF Len(data.v) < q
    THEN Raise("ValueError", "Number of observations in data must be at least q.", {})
    ELSE IF theta = None \/ sigma2 = None
    THEN LET fit == fit_ma_model(data.v, q, o)
         IN  IF fit.kind = "raise" THEN fit
             ELSE Continue(data.v, fit.val[1], fit.val[2], fit.log)
    ELSE Continue(data.v, theta.v, sigma2.v, {})

(* error_terms that always takes q errors *)
error_terms_Untruncated(errors, q, steps, i) == PySlice(errors, i, i + q)

(* errors[i : i + q] if i + q <= steps else errors[i : steps], i 0-based *)
error_terms(errors, q, steps, i) ==
    IF i + q <= steps THEN PySlice(errors, i, i + q) ELSE PySlice(errors, i, steps)

ma_predictions(data, q, steps, theta, errors, log) ==
    LET mu == Mean(data)
        terms(i) == error_terms(errors, q, steps, i)
        coef(i) == PySlice(theta, 0, Len(terms(i)))
        bad == {i \in 0..(steps - 1) : q > 0 /\ Len(coef(i)) # Len(terms(i))}
        pred(i) == IF q > 0
                   THEN RatAdd(mu, Rat(Dot(coef(i), Reverse(terms(i))), 1))
                   ELSE mu
    IN  IF bad # {}
        THEN Raise("ValueError", "shapes not aligned", log \cup {"draw", "predict"})
        ELSE Return(Arr([k \in 1..steps |-> pred(k - 1)]),
                    log \cup {"draw"} \cup (IF steps > 0 THEN {"predict"} ELSE {}))

(* the variance of what np.random.normal(loc, scale, size) draws: scale is  *)
(* the standard deviation                                                   *)
normal_variance(request) == request.scale * request.scale

(* np.random.normal(0, sigma2, steps + q): the request and what it gave *)
normal(loc, scale, size, out) ==
    [called |-> TRUE, loc |-> loc, scale |-> scale, size |-> size, out |-> out]

(***************************************************************************)
(* Two-series statistics on Series with the default index 0..n-1.           *)
(***************************************************************************)
Prefix(s, m) == SubSeq(s, 1, m)

(* sum of (x[i] - mean x)(y[i] - mean y), times Len(x), for Len(x) = Len(y) *)
CoMoment(x, y) == Len(x) * Dot(x, y) - SumSeq(x) * SumSeq(y)

(* data - data.mean(), times Len(data) *)
Excess(s) == [i \in 1..Len(s) |-> Len(s) * s[i] - SumSeq(s)]

(* Series.cov aligns the two indexes (inner join), Series.var does not *)
get_beta(returns, benchmark_returns) ==
    LET excess_returns == Excess(returns)
        excess_benchmark_returns == Excess(benchmark_returns)
        m == Min(Len(returns), Len(benchmark_returns))
        n2 == Len(benchmark_returns)
        x == Prefix(excess_returns, m)
        y == Prefix(excess_benchmark_returns, m)
        cov == IF m < 2 THEN NaN
               ELSE Rat(CoMoment(x, y), m * (m - 1) * Len(returns) * n2)
        var == IF n2 < 2 THEN NaN
               ELSE Rat(CoMoment(excess_benchmark_returns, excess_benchmark_returns),
                        n2 * (n2 - 1) * n2 * n2)
    IN  IF ~IsFinite(cov) \/ ~IsFinite(var) THEN Return(NaN, {})
        ELSE Return(Rat(cov[1] * var[2], cov[2] * var[1]), {})

(* np.corrcoef stacks the two series as rows: unequal lengths do not stack. *)
(* The coefficient c / sqrt(v1 * v2) is kept as <<sign, square>>.           *)
get_pearsons_correlation(series1, series2) ==
    LET c == CoMoment(series1, series2)
        v1 == CoMoment(series1, series1)
        v2 == CoMoment(series2, series2)
    IN  IF Len(series1) # Len(series2)
        THEN Raise("ValueError", "array dimensions must match", {})
        ELSE IF Len(series1) < 2 \/ v1 * v2 = 0 THEN Return(NaN, {})
        ELSE Return(<<Sign(c), Rat(c * c, v1 * v2)>>, {})

(* Series.rank(): average rank of ties, kept doubled *)
Rank2(s) ==
    [i \in 1..Len(s) |->
       2 * Cardinality({j \in 1..Len(s) : s[j] < s[i]})
       + Cardinality({j \in 1..Len(s) : s[j] = s[i]}) + 1]

(* get_spearman_correlation on the values instead of their ranks *)
get_spearman_correlation_OnValues(series1, series2) ==
    LET m == Min(Len(series1), Len(series2))
        d2 == [i \in 1..m |-> 2 * series1[i] - 2 * series2[i]]
        n == Len(series1)
    IN  Return(RatAdd(<<1, 1>>,
                      RatScale(-1, Rat(6 * Dot(d2, d2), 4 * n * (n * n - 1)))), {})

(* rank_series1 - rank_series2 aligns the indexes (outer join, NaN where a  *)
(* position is missing) and sum() skips NaN; n is len(series1).             *)
get_spearman_correlation(series1, series2) ==
    LET rank_series1 == Rank2(series1)
        rank_series2 == Rank2(series2)
        m == Min(Len(series1), Len(series2))
        d2 == [i \in 1..m |-> rank_series1[i] - rank_series2[i]]
        d_squared_sum4 == Dot(d2, d2)
        n == Len(series1)
    IN  Return(RatAdd(<<1, 1>>,
                      RatScale(-1, Rat(6 * d_squared_sum4, 4 * n * (n * n - 1)))), {})

(***************************************************************************)
(* Calls of get_ar, get_ar_weights_lsm and estimate_ar_weights_yule_walker. *)
(* c is passed on by get_ar_Series only and method is read only when phi is *)
(* None, so the other calls are drawn with their defaults.                  *)
(***************************************************************************)
(* tables have at least one column and one row *)
Arrays == {Arr(v) : v \in SeqsUpTo(Vals, MaxLen)}
SeriesData == {Ser(v) : v \in SeqsUpTo(1..2, MaxLen)}
Lists == {List(v) : v \in SeqsUpTo({1}, MaxLen)}
Frames ==
    {Frame(nl, cols) : nl \in 1..2,
                       cols \in UNION {[1..k -> [1..r -> 1..2]] :
                                         k \in 1..MaxCols, r \in 1..MaxRows}}
AnyData == Arrays \cup SeriesData \cup Lists \cup Frames

Orders == 1..MaxP
PhiArgs == {None} \cup {Arr(v) : v \in SeqsUpTo({-1, 1}, MaxP)}
Methods == {"lsm", "yw", "mle"}

ArCalls ==
    {a \in [data : AnyData, steps : {PyInt(k) : k \in 0..MaxSteps}, phi : PhiArgs,
            c : {None, PyInt(1)}, p : Orders, method : Methods] :
        /\ (a.c # None => a.data.t = "Series")
        /\ (a.method # DefaultMethod => a.phi = None)}

EstCalls == [series : SeqsUpTo(Vals, MaxLen + 1), p : Orders]

NoRng == [called |-> FALSE]
NoOpt == [called |-> FALSE]

ThetaArgs ==
    {None} \cup {Arr([i \in 1..k |-> i]) : k \in 0..MaxQ}
           \cup {Arr([i \in 1..k |-> k + 1 - i]) : k \in 0..MaxQ}
Sigma2Args == {None, PyInt(1), PyInt(2)}
NoiseVals == {-1, 2}
MaData ==
    {Arr(v) : v \in SeqsUpTo(1..2, MaxLen)} \cup Frames
    \cup {d \in SeriesData \cup Lists : Len(d.v) <= 2}

MaCalls ==
    [data : MaData, q : 0..MaxQ, steps : 0..MaxSteps, theta : ThetaArgs,
     sigma2 : Sigma2Args]

FitCalls == [data : SeqsUpTo(1..2, MaxLen), q : 0..MaxQ]

(* what the optimizer may report for q parameters and a variance *)
OptResults(q) ==
    [called : {TRUE}, success : BOOLEAN,
     x : {[i \in 1..(q + 1) |-> i + 1],
          [i \in 1..(q + 1) |-> IF i = q + 1 THEN 1 ELSE 0]}]

StatCalls == [series1 : SeqsUpTo(0..MaxVal, MaxLen), series2 : SeqsUpTo(0..MaxVal, MaxLen)]

Idle(f, calls) ==
    /\ pc = "call"
    /\ fn = f
    /\ args \in calls
    /\ result = None
    /\ rng = NoRng
    /\ opt = NoOpt

Finish(out) ==
    /\ result' = out
    /\ pc' = "done"
    /\ UNCHANGED <<fn, args>>

GetAr ==
    /\ pc = "call" /\ fn = "get_ar"
    /\ Finish(get_ar(args.data, args.steps, args.phi, args.c, args.p, args.method))
    /\ UNCHANGED <<rng, opt>>

GetArWeightsLsm ==
    /\ pc = "call" /\ fn = "get_ar_weights_lsm"
    /\ Finish(get_ar_weights_lsm(args.series, args.p))
    /\ UNCHANGED <<rng, opt>>

EstimateArWeightsYuleWalker ==
    /\ pc = "call" /\ fn = "estimate_ar_weights_yule_walker"
    /\ Finish(estimate_ar_weights_yule_walker(args.series, args.p))
    /\ UNCHANGED <<rng, opt>>

InitAr == Idle("get_ar", ArCalls)
NextAr == GetAr
SpecAr == InitAr /\ [][NextAr]_vars

InitEst ==
    \/ Idle("get_ar_weights_lsm", EstCalls)
    \/ Idle("estimate_ar_weights_yule_walker", EstCalls)
NextEst == GetArWeightsLsm \/ EstimateArWeightsYuleWalker
SpecEst == InitEst /\ [][NextEst]_vars

FitMaModel ==
    /\ pc = "call" /\ fn = "fit_ma_model"
    /\ \E o \in OptResults(args.q) :
          /\ opt' = o
          /\ Finish(fit_ma_model(args.data, args.q, o))
    /\ UNCHANGED rng

(* the optimizer and the noise source are consulted only when the call      *)
(* gets to them                                                             *)
GetMa ==
    /\ pc = "call" /\ fn = "get_ma"
    /\ LET Setup(o) == get_ma_setup(args.data, args.q, args.steps, args.theta,
                                    args.sigma2, o)
           fits == \E o \in OptResults(args.q) : "estimate" \in Setup(o).log
       IN  \E o \in IF fits THEN OptResults(args.q) ELSE {NoOpt} :
             /\ opt' = o
             /\ IF Setup(o).kind = "continue"
                THEN \E errors \in [1..(args.steps + args.q) -> NoiseVals] :
                       /\ rng' = normal(0, Setup(o).sigma2, args.steps + args.q, errors)
                       /\ Finish(ma_predictions(Setup(o).data, args.q, args.steps,
                                                Setup(o).theta, errors, Setup(o).log))
                ELSE /\ rng' = rng
                     /\ Finish(Setup(o))

GetBeta ==
    /\ pc = "call" /\ fn = "get_beta"
    /\ Finish(get_beta(args.series1, args.series2))
    /\ UNCHANGED <<rng, opt>>

GetPearsonsCorrelation ==
    /\ pc = "call" /\ fn = "get_pearsons_correlation"
    /\ Finish(get_pearsons_correlation(args.series1, args.series2))
    /\ UNCHANGED <<rng, opt>>

GetSpearmanCorrelation ==
    /\ pc = "call" /\ fn = "get_spearman_correlation"
    /\ Finish(get_spearman_correlation(args.series1, args.series2))
    /\ UNCHANGED <<rng, opt>>

InitMa == Idle("get_ma", MaCalls) \/ Idle("fit_ma_model", FitCalls)
NextMa == GetMa \/ FitMaModel
SpecMa == InitMa /\ [][NextMa]_vars

InitStat ==
    \/ Idle("get_beta", StatCalls)
    \/ Idle("get_pearsons_correlation", StatCalls)
    \/ Idle("get_spearman_correlation", StatCalls)
NextStat == GetBeta \/ GetPearsonsCorrelation \/ GetSpearmanCorrelation
SpecStat == InitStat /\ [][NextStat]_vars

(* every routine *)
Init == InitAr \/ InitEst \/ InitMa \/ InitStat
Next ==
    \/ GetAr
    \/ GetArWeightsLsm
    \/ EstimateArWeightsYuleWalker
    \/ GetMa
    \/ FitMaModel
    \/ GetBeta
    \/ GetPearsonsCorrelation
    \/ GetSpearmanCorrelation
Spec == Init /\ [][Next]_vars

Done(f) == pc = "done" /\ fn = f

(***************************************************************************)
(* Properties of get_ar and of the AR estimators.                           *)
(***************************************************************************)

(* the forecast of an autoregressive recurrence: value k is phi times the   *)
(* p newest values of the observations followed by values 1..k-1            *)
RECURSIVE RecurrenceForecast(_, _, _)
RecurrenceForecast(obs, phi, k) ==
    IF k = 0 THEN <<>>
    ELSE LET prev == RecurrenceForecast(obs, phi, k - 1)
             hist == obs \o prev
             recent == SubSeq(hist, Len(hist) - Len(phi) + 1, Len(hist))
         IN  Append(prev, Dot(phi, Reverse(recent)))

(* C1: get_ar on an array with coefficients phi of length p returns the     *)
(* autoregressive recurrence: prediction k is phi times the p most recent   *)
(* values, newest first, of the observations followed by predictions        *)
(* 1..k-1.                                                                  *)
C1_ArRecurrence ==
    (/\ Done("get_ar")
     /\ args.data.t = "ndarray"
     /\ args.phi # None
     /\ Len(args.phi.v) = args.p
     /\ Len(args.data.v) >= args.p)
    => /\ result.kind = "return"
       /\ result.val.v =
            [k \in 1..args.steps.v |->
               <<RecurrenceForecast(args.data.v, args.phi.v, args.steps.v)[k], 1>>]

(* series[t] = phi[1] * series[t-1] + ... + phi[p] * series[t-p], t > p *)
GeneratedBy(series, phi) ==
    \A t \in (Len(phi) + 1)..Len(series) :
        series[t] = SumSeq([i \in 1..Len(phi) |-> phi[i] * series[t - i]])

(* the lagged regressors of the series determine the coefficients: their   *)
(* Gram matrix is regular                                                   *)
LagColumns(series, p) ==
    [i \in 1..p |-> SubSeq(series, p + 1 - i, Len(series) - i)]

Identified(series, p) ==
    LET L == LagColumns(series, p)
    IN  Det([a \in 1..p |-> [c \in 1..p |-> Dot(L[a], L[c])]]) # 0

(* C2: on a series of length > p generated without noise by a phi that the  *)
(* data identify, get_ar_weights_lsm returns that phi and sigma2 = 0.       *)
C2_LsmRecoversPhi ==
    (Done("get_ar_weights_lsm") /\ Len(args.series) > args.p)
    => \A phi \in [1..args.p -> Vals] :
          (GeneratedBy(args.series, phi) /\ Identified(args.series, args.p))
          => /\ result.kind = "return"
             /\ result.val = <<IntVec(phi), <<0, 1>>>>

(* C3: get_ar on a table with a single-level index gives, for every column, *)
(* get_ar of that column's values with the caller's steps, phi, p and       *)
(* method, and succeeds when every such call succeeds.                      *)
C3_ArColumnWise ==
    (Done("get_ar") /\ args.data.t = "DataFrame" /\ args.data.nlevels = 1)
    => LET col(j) == get_ar(Arr(args.data.cols[j]), args.steps, args.phi, args.c,
                            args.p, args.method)
           J == 1..Len(args.data.cols)
       IN  (\A j \in J : col(j).kind = "return")
           => /\ result.kind = "return"
              /\ result.val.t = "DataFrame"
              /\ Len(result.val.cols) = Len(args.data.cols)
              /\ \A j \in J : result.val.cols[j] = col(j).val.v

(* C4: get_ar on a table whose index has more than one level raises         *)
(* ValueError, whatever steps, phi, p and method are, before any            *)
(* coefficient is estimated and any prediction is made.                     *)
C4_MultiIndexRaises ==
    (Done("get_ar") /\ args.data.t = "DataFrame" /\ args.data.nlevels # 1)
    => /\ result.kind = "raise"
       /\ result.cls = "ValueError"
       /\ result.log = {}

C4_Witness ==
    /\ Done("get_ar")
    /\ args.data.t = "DataFrame" /\ args.data.nlevels = 2
    /\ Len(args.data.cols) > 0 /\ Len(args.data.cols[1]) > 0
    /\ args.phi = None /\ args.steps.v > 0
    /\ result.kind = "raise"

(***************************************************************************)
(* Properties of get_ma.                                                    *)
(***************************************************************************)
MissingTheta(out) ==
    /\ out.kind = "raise"
    /\ out.cls = "ValueError"
    /\ out.msg = "Theta (MA coefficients) must be provided."

NothingComputed == result.log = {} /\ ~rng.called /\ ~opt.called

(* C5: get_ma without theta raises the missing-parameter error for every    *)
(* data input, q, steps and sigma2; it returns no forecast and does not     *)
(* estimate theta.                                                          *)
C5_MissingThetaRaises ==
    (Done("get_ma") /\ args.theta = None)
    => MissingTheta(result) /\ NothingComputed

(* C5, amended: get_ma without theta raises for every data input, q, steps *)
(* and sigma2, and estimates nothing, draws no noise and predicts nothing.  *)
(* The error is the missing-parameter ValueError when the data is not a     *)
(* table; a table with a multi-level index raises the ValueError of the     *)
(* index test and a table with a single-level index the TypeError of the    *)
(* column-wise call, which is made without q.                               *)
C5_MissingThetaRaisesByData ==
    (Done("get_ma") /\ args.theta = None)
    => /\ result.kind = "raise"
       /\ NothingComputed
       /\ (args.data.t # "DataFrame" => MissingTheta(result))
       /\ (args.data.t = "DataFrame" /\ args.data.nlevels # 1
             => result.cls = "ValueError" /\ ~MissingTheta(result))
       /\ (args.data.t = "DataFrame" /\ args.data.nlevels = 1
             => result.cls = "TypeError")

C5_Witness ==
    /\ Done("get_ma") /\ args.theta = None
    /\ args.data.t = "ndarray" /\ Len(args.data.v) < args.q
    /\ args.sigma2 = None /\ args.steps > 0
    /\ MissingTheta(result)

(* the coefficients of the forecast: those of the caller, or those          *)
(* fit_ma_model returned when sigma2 is None                                *)
ThetaInUse ==
    IF args.sigma2 = None THEN SubSeq(opt.x, 1, Len(opt.x) - 1) ELSE args.theta.v

(* theta[0..k-1] times the k errors from position i on, newest first *)
MaTerm(theta, errors, i, k) ==
    SumFn([j \in 0..(k - 1) |-> theta[j + 1] * errors[(i + k - 1 - j) + 1]])

C6_LsmShortSeriesRaises ==
    (Done("get_ar_weights_lsm") /\ Len(args.series) <= args.p)
    => result.kind = "raise"

(* C7: get_beta, get_pearsons_correlation and get_spearman_correlation,     *)
(* called with two series of unequal length, fail with an error and return  *)
(* no value.                                                                *)
C7_UnequalLengthsRaise ==
    (/\ pc = "done"
     /\ fn \in {"get_beta", "get_pearsons_correlation", "get_spearman_correlation"}
     /\ Len(args.series1) # Len(args.series2))
    => result.kind = "raise"

(* C8: get_spearman_correlation on series of length 0 or 1 fails with a     *)
(* division-by-zero error and returns neither a number nor NaN.             *)
C8_SpearmanDegenerateRaises ==
    (/\ Done("get_spearman_correlation")
     /\ Len(args.series1) = Len(args.series2)
     /\ Len(args.series1) \in {0, 1})
    => result.kind = "raise" /\ result.cls = "ZeroDivisionError"

(* a forecast of steps values for the series, or for every column *)
CompleteForecast(v, steps) ==
    \/ v.t = "ndarray" /\ Len(v.v) = steps
    \/ v.t = "DataFrame" /\ \A j \in 1..Len(v.cols) : Len(v.cols[j]) = steps

(* C9: every call of get_ar and get_ma, for every kind of data, returns a   *)
(* forecast of exactly steps values per series or raises; none returns      *)
(* None or a partial result.                                                *)
C9_ForecastOrRaise ==
    /\ Done("get_ar")
         => \/ result.kind = "raise"
            \/ result.kind = "return" /\ CompleteForecast(result.val, args.steps.v)
    /\ Done("get_ma")
         => \/ result.kind = "raise"
            \/ result.kind = "return" /\ CompleteForecast(result.val, args.steps)

(* the variance of the forecast: the caller's, or the one fit_ma_model      *)
(* returned when sigma2 is None                                             *)
Sigma2InUse ==
    IF args.sigma2 = None THEN opt.x[Len(opt.x)] ELSE args.sigma2.v

(* C11: the errors get_ma simulates are requested from the noise source as  *)
(* zero-mean Gaussian whose variance is sigma2, for every sigma2 > 0.       *)
C11_NoiseVariance ==
    (Done("get_ma") /\ rng.called)
    => /\ rng.loc = 0
       /\ normal_variance(rng) = Sigma2InUse

(***************************************************************************)
(* Properties of fit_ma_model.                                              *)
(***************************************************************************)

(* C12: fit_ma_model returns (theta, sigma2) only when the optimizer        *)
(* reports success, and then the optimizer's final parameters split into    *)
(* the first q entries and the last one; when the optimizer reports failure *)
(* it raises the estimation-failure error and returns nothing.              *)
C12_FitReturnsOnSuccessOnly ==
    Done("fit_ma_model")
    => /\ opt.called
       /\ (opt.success
             => /\ result.kind = "return"
                /\ Len(result.val[1]) = args.q
                /\ \A i \in 1..args.q : result.val[1][i] = opt.x[i]
                /\ result.val[2] = opt.x[args.q + 1])
       /\ (~opt.success
             => /\ result.kind = "raise"
                /\ result.cls = "RuntimeError"
                /\ result.msg = "Optimization failed.")

C12_Witness ==
    /\ Done("fit_ma_model")
    /\ args.q = MaxQ /\ Len(args.data) > 0
    /\ ~opt.success
    /\ opt.x = [i \in 1..(args.q + 1) |-> IF i = args.q + 1 THEN 1 ELSE 0]
    /\ result.kind = "raise"

(***************************************************************************)
(* Properties of get_spearman_correlation.                                  *)
(***************************************************************************)

(* the strictly increasing maps of the observations *)
IncreasingMaps ==
    {f \in [0..MaxVal -> 0..(2 * MaxVal + 1)] :
        \A x, y \in 0..MaxVal : x < y => f[x] < f[y]}

MapSeries(f, s) == [i \in 1..Len(s) |-> f[s[i]]]

(* C13: for two series a and b of equal length n >= 2, ties allowed, and    *)
(* every strictly increasing f, get_spearman_correlation(f(a), b) and       *)
(* get_spearman_correlation(a, f(b)) equal get_spearman_correlation(a, b).  *)
C13_SpearmanMonotoneInvariant ==
    (/\ Done("get_spearman_correlation")
     /\ Len(args.series1) = Len(args.series2)
     /\ Len(args.series1) >= 2)
    => \A f \in IncreasingMaps :
          /\ get_spearman_correlation(MapSeries(f, args.series1), args.series2) = result
          /\ get_spearman_correlation(args.series1, MapSeries(f, args.series2)) = result

C13_Witness ==
    /\ Done("get_spearman_correlation")
    /\ args.series1 = <<0, 0, 1>>
    /\ args.series2 = <<0, 1, 1>>
    /\ result.kind = "return"
    /\ result.val = <<5, 8>>
    /\ \E f \in IncreasingMaps : MapSeries(f, args.series1) # args.series1

(***************************************************************************)
(* Properties of the matrices of the two AR estimators.                     *)
(***************************************************************************)

(* C14: in get_ar_weights_lsm, for a series of length n > p, Y has n - p    *)
(* rows with Y[t] = series[p + t], and X has n - p rows and p columns,      *)
(* column i being the series lagged by i relative to Y,                     *)
(* X[t][i] = series[p + t - i]; so no column of X is Y itself.              *)
C14_LsmDesignMatrix ==
    (Done("get_ar_weights_lsm") /\ Len(args.series) > args.p)
    => LET n == Len(args.series)
           X == lsm_X(args.series, args.p)
           Y == lsm_Y(args.series, args.p)
       IN  /\ Len(Y) = n - args.p
           /\ \A t \in 1..(n - args.p) : Y[t] = args.series[args.p + t]
           /\ Len(X) = args.p
           /\ \A i \in 1..args.p :
                 /\ Len(X[i]) = n - args.p
                 /\ \A t \in 1..(n - args.p) : X[i][t] = args.series[args.p + t - i]

(* n times the autocovariance at lag k: the sum of series[t] * series[t+k] *)
AutocovSum(series, k) ==
    SumFn([t \in {t \in 1..Len(series) : t + k <= Len(series)} |->
             series[t] * series[t + k]])

(* C15: in estimate_ar_weights_yule_walker, with autocov[k] the sum of      *)
(* series[t] * series[t+k] over n for k = 0..p, R[i][j] = autocov[|i-j|]    *)
(* and r = (autocov[1], ..., autocov[p]), the returned phi solves           *)
(* R * phi = r and the returned sigma2 is autocov[0] - phi.r.               *)
C15_YuleWalkerEquations ==
    (Done("estimate_ar_weights_yule_walker") /\ result.kind = "return")
    => LET n == Len(args.series)
           p == args.p
           phi == result.val[1]
           A(k) == AutocovSum(args.series, k)
       IN  /\ Len(phi.num) = p
           /\ \A i \in 1..p :
                 SumFn([j \in 1..p |-> A(Abs(i - j)) * phi.num[j]]) = phi.den * A(i)
           /\ result.val[2] =
                 Rat(A(0) * phi.den - SumFn([i \in 1..p |-> phi.num[i] * A(i)]),
                     phi.den * n)

(***************************************************************************)
(* Properties of the Series and DataFrame branches of get_ar and get_ma.    *)
(***************************************************************************)

(* C16: get_ar called with a Series gives what get_ar gives on the Series'  *)
(* underlying array with the same steps, phi, p and method: a forecast of   *)
(* steps values computed with the caller's phi.                             *)
C16_ArSeriesAsArray ==
    (Done("get_ar") /\ args.data.t = "Series")
    => LET onArray == get_ar(Arr(args.data.v), args.steps, args.phi, args.c,
                             args.p, args.method)
       IN  /\ result.kind = onArray.kind
           /\ (onArray.kind = "return"
                 => /\ result.val = onArray.val
                    /\ Len(result.val.v) = args.steps.v)
           /\ (onArray.kind = "raise" => result.cls = onArray.cls)

(* get_ma on one column alone gets to a forecast *)
MaColumnSucceeds(col) ==
    \E o \in OptResults(args.q) :
        LET setup == get_ma_setup(Arr(col), args.q, args.steps, args.theta,
                                  args.sigma2, o)
        IN  /\ setup.kind = "continue"
            /\ ma_predictions(setup.data, args.q, args.steps, setup.theta,
                              [i \in 1..(args.steps + args.q) |-> 2],
                              setup.log).kind = "return"

(* C17: get_ma on a table with a single-level index forecasts each column   *)
(* as get_ma does on that column alone with the caller's q, steps, theta    *)
(* and sigma2, and succeeds whenever those calls succeed; on a table with a *)
(* multi-level index it raises ValueError before it looks at theta or at    *)
(* the length of the data.                                                  *)
C17_MaColumnWise ==
    (Done("get_ma") /\ args.data.t = "DataFrame")
    => /\ (args.data.nlevels = 1
              /\ \A j \in 1..Len(args.data.cols) : MaColumnSucceeds(args.data.cols[j]))
            => /\ result.kind = "return"
               /\ result.val.t = "DataFrame"
               /\ Len(result.val.cols) = Len(args.data.cols)
               /\ \A j \in 1..Len(result.val.cols) :
                     Len(result.val.cols[j]) = args.steps
       /\ args.data.nlevels # 1
            => /\ result.kind = "raise"
               /\ result.cls = "ValueError"
               /\ result.msg = "Expects single index DataFrame."
               /\ NothingComputed

=============================================================================
